---- MODULE Spec2Model ----
(***************************************************************************)
(* The pairwise similarity engine of the cheminformatics notebooks:        *)
(* cosine_similarity(A, B) and pairwise_similarity(vectors), as defined in *)
(* the mol2vec similarity notebook and again in the cyanopolyynes notebook. *)
(*                                                                         *)
(* The arithmetic is floating point.  A number is a sign, a mantissa of at *)
(* most p bits and an exponent, written with an odd mantissa so that equal *)
(* numbers are equal records whatever their type, and every operation      *)
(* rounds its exact result to the nearest such number (ties to even), as   *)
(* IEEE 754 does.  The element                                             *)
(* types float32 and float64 are modelled with narrower mantissas so that  *)
(* every intermediate fits the model checker's integers.                   *)
(***************************************************************************)
EXTENDS Integers, Sequences, FiniteSets, TLC

VARIABLES mode, dtype, vectors, pc, n, i, j, matrix, ret, err, args, sim, calls,
          kept,     \* <<>>, or an earlier invocation's input and outcome in a 1-tuple
          pending,  \* the cells that workers running the loop body still owe
          cell,            \* the cell of the dataset notebook that runs next
          smi_list,        \* the collected SMILES strings
          combined_jac,    \* the Notation column of the combined TMC-1 sheets
          jac_missing,     \* the Notations found missing from smi_list
          molecular_weights,
          mol_df,          \* the data frame, column by column
          collected_smiles, \* the characters of the file collected_smiles.smi
          checklist,        \* the molecules looked for in the frame
          Check,            \* the column mol_df["Check"]
          kida_df,          \* the KIDA table, row by row
          kida_smiles,      \* its rows that have a SMILES string
          smi_files,        \* the text of each .smi file, in the order of rglob
          loaded,           \* how many of them the loop has read
          df,               \* the TMC-1 table, row by row
          ignored,          \* its rows without the isotopologues
          tmc_1_vecs,       \* the vectors of the comprehension, as far as it has come
          molecule_dict,    \* molecule name to vector
          raised,           \* the exception that ended the comprehension
          soup,             \* the rows of the KIDA page, each the texts of its td cells
          map_dict,         \* formula to InChI
          name,             \* the loop's variable name, from whichever row bound it last
          scraped           \* how many rows the loop has processed

\* the state of the similarity notebook
simVars == <<mode, dtype, vectors, pc, n, i, j, matrix, ret, err, args, sim, calls,
             kept, pending>>

\* the state of the dataset notebook
dataVars == <<cell, smi_list, combined_jac, jac_missing, molecular_weights, mol_df>>

\* the files and tables around the two notebooks
dumpVars == <<collected_smiles>>
checkVars == <<checklist, Check>>
kidaVars == <<kida_df, kida_smiles>>
loadVars == <<smi_files, loaded>>
tmcVars == <<df, ignored, tmc_1_vecs, molecule_dict, raised>>
scrapeVars == <<soup, map_dict, name, scraped>>
tableVars == <<dumpVars, checkVars, kidaVars, loadVars, tmcVars, scrapeVars>>

\* all of them but one group
NotDumpVars == <<checkVars, kidaVars, loadVars, tmcVars, scrapeVars>>
NotCheckVars == <<dumpVars, kidaVars, loadVars, tmcVars, scrapeVars>>
NotKidaVars == <<dumpVars, checkVars, loadVars, tmcVars, scrapeVars>>
NotLoadVars == <<dumpVars, checkVars, kidaVars, tmcVars, scrapeVars>>
NotTmcVars == <<dumpVars, checkVars, kidaVars, loadVars, scrapeVars>>
NotScrapeVars == <<dumpVars, checkVars, kidaVars, loadVars, tmcVars>>

vars == <<simVars, dataVars, tableVars>>

(***************************************************************************)
(* Bounds of the model.                                                    *)
(***************************************************************************)
MaxN == 2          \* longest input sequence of pairwise_similarity
MaxDim == 2        \* longest vector handed to cosine_similarity directly
MantBits32 == 4    \* mantissa width standing for float32
MantBitsExtra == 3 \* extra mantissa bits of float64 over float32
MaxScale == 3      \* largest integer factor an operand is scaled by
MaxRows == 3       \* longest smi_list of the dataset notebook
MaxNames == 2      \* longest Notation column of the combined TMC-1 sheets
MaxStr == 2        \* longest string spelled out character by character
MaxLines == 2      \* most rows of the frame that is dumped to a file

\* the vectors of a direct call of cosine_similarity
Elems == {-1, 0, 1, 2}

Vec == UNION {[1..d -> Elems] : d \in 1..MaxDim}

\* the vectors of an input sequence of pairwise_similarity: two lengths, so
\* that a sequence can be ragged
Row == [1..1 -> Elems] \cup [1..2 -> Elems]

Inputs == UNION {[1..k -> Row] : k \in 0..MaxN}

\* three vectors of length three: two unit vectors and their sum
Scenario == <<<<1, 0, 0>>, <<0, 1, 0>>, <<1, 1, 0>>>>

Modes == {"nopython", "object"}

DTypes == {"float32", "float64"}

(***************************************************************************)
(* Floating point numbers.                                                 *)
(***************************************************************************)
Zero == [nan |-> FALSE, sign |-> 0, man |-> 0, exp |-> 0]

NaN == [nan |-> TRUE, sign |-> 0, man |-> 0, exp |-> 0]

\* mantissa width of an element type
Prec(t) == IF t = "float32" THEN MantBits32 ELSE MantBits32 + MantBitsExtra

Abs(x) == IF x < 0 THEN -x ELSE x

Sgn(x) == IF x < 0 THEN -1 ELSE IF x > 0 THEN 1 ELSE 0

RECURSIVE Canon(_, _, _)
\* sgn * m * 2^e with the mantissa made odd (m > 0)
Canon(sgn, m, e) ==
  IF m % 2 = 0 THEN Canon(sgn, m \div 2, e + 1)
  ELSE [nan |-> FALSE, sign |-> sgn, man |-> m, exp |-> e]

RECURSIVE ScaleUp(_, _, _, _)
\* least k >= 0 with floor(num * 2^k / den) >= 2^(p-1)
ScaleUp(num, den, p, k) ==
  IF (num * 2^k) \div den >= 2^(p - 1) THEN k ELSE ScaleUp(num, den, p, k + 1)

RECURSIVE ScaleDown(_, _, _, _)
\* least k >= 0 with floor(num / (den * 2^k)) < 2^p
ScaleDown(num, den, p, k) ==
  IF num \div (den * 2^k) < 2^p THEN k ELSE ScaleDown(num, den, p, k + 1)

\* the p-bit number nearest to sgn * (num / den) * 2^e, ties to even (num, den > 0)
Round(sgn, num, den, e, p) ==
  LET up == ScaleUp(num, den, p, 0)
      dn == ScaleDown(num, den, p, 0)
      n2 == num * 2^up
      d2 == den * 2^dn
      q  == n2 \div d2
      r  == n2 % d2
      q1 == IF 2 * r > d2 \/ (2 * r = d2 /\ q % 2 = 1) THEN q + 1 ELSE q
  IN  Canon(sgn, q1, e - up + dn)

\* an integer as a p-bit number
FromInt(k, p) == IF k = 0 THEN Zero ELSE Round(Sgn(k), Abs(k), 1, 0, p)

\* a number stored into an array of element type with p bits (matrix[i,j] = x)
Cast(x, p) == IF x.nan \/ x.sign = 0 THEN x ELSE Round(x.sign, x.man, 1, x.exp, p)

\* x * y rounded to p bits
FMul(x, y, p) ==
  IF x.nan \/ y.nan THEN NaN
  ELSE IF x.sign = 0 \/ y.sign = 0 THEN Zero
  ELSE Round(x.sign * y.sign, x.man * y.man, 1, x.exp + y.exp, p)

\* x / y rounded to p bits, y # 0
FDiv(x, y, p) ==
  IF x.nan \/ y.nan THEN NaN
  ELSE IF x.sign = 0 THEN Zero
  ELSE Round(x.sign * y.sign, x.man, y.man, x.exp - y.exp, p)

RECURSIVE SqrtBits(_, _, _)
\* r with the bits b, b-1, ..., 0 set where the square stays within m
SqrtBits(m, r, b) ==
  IF b < 0 THEN r
  ELSE IF (r + 2^b) * (r + 2^b) <= m THEN SqrtBits(m, r + 2^b, b - 1)
  ELSE SqrtBits(m, r, b - 1)

\* floor of the square root of a natural number below 4^(p+1)
ISqrt(m, p) == SqrtBits(m, 0, p)

RECURSIVE SqrtScale(_, _, _)
\* least k >= 0 with m * 4^k >= 4^(p-1)
SqrtScale(m, p, k) == IF m * 4^k >= 4^(p - 1) THEN k ELSE SqrtScale(m, p, k + 1)

\* sqrt(x) rounded to p bits, x >= 0 (the root of a number is never a tie)
FSqrt(x, p) ==
  IF x.nan THEN NaN
  ELSE IF x.sign = 0 THEN Zero
  ELSE LET odd == x.exp % 2 = 1
           m0  == IF odd THEN 2 * x.man ELSE x.man
           e0  == IF odd THEN x.exp - 1 ELSE x.exp
           k   == SqrtScale(m0, p, 0)
           m   == m0 * 4^k
           r   == ISqrt(m, p)
           r1  == IF m - r * r > r THEN r + 1 ELSE r
           e1  == (e0 \div 2) - k
       IN  Canon(1, r1, e1)

(***************************************************************************)
(* numpy's dot and norm on one-dimensional arrays.  The elements are       *)
(* integers small enough that every partial sum is exact in either element *)
(* type, so the sum is formed exactly and rounded once.                    *)
(***************************************************************************)
RECURSIVE SumProd(_, _, _)
\* A[1]*B[1] + ... + A[k]*B[k]
SumProd(A, B, k) == IF k = 0 THEN 0 ELSE SumProd(A, B, k - 1) + A[k] * B[k]

RECURSIVE SumAbsProd(_, _, _)
\* |A[1]*B[1]| + ... + |A[k]*B[k]|
SumAbsProd(A, B, k) ==
  IF k = 0 THEN 0 ELSE SumAbsProd(A, B, k - 1) + Abs(A[k] * B[k])

\* the dot product of the absolute values
Dot_abs(A, B, p) == FromInt(SumAbsProd(A, B, Len(A)), p)

\* np.dot(A, B) for vectors of equal length
Dot(A, B, p) == FromInt(SumProd(A, B, Len(A)), p)

\* a norm that forgets the square root
Norm_squared(A, p) == Dot(A, A, p)

\* the largest absolute element instead of the Euclidean length
Norm_max(A, p) ==
  FromInt(CHOOSE m \in {Abs(A[k]) : k \in 1..Len(A)} :
            \A k \in 1..Len(A) : Abs(A[k]) <= m, p)

\* np.linalg.norm(A) = sqrt(dot(A, A))
Norm(A, p) == FSqrt(Dot(A, A, p), p)

\* the outcome of a call: an exception name or "none", and the value returned
Raised(e) == [err |-> e, val |-> Zero]

Returned(v) == [err |-> "none", val |-> v]

\* float division as the build performs it: compiled code raises on a zero
\* divisor, interpreted numpy scalars give 0/0 = nan (a zero norm makes the
\* dot product zero as well, so the quotient is never an infinity)
Divide(x, y, p) ==
  IF y.sign = 0 /\ ~y.nan
    THEN IF mode = "nopython" THEN Raised("ZeroDivisionError") ELSE Returned(NaN)
    ELSE Returned(FDiv(x, y, p))

\* the norm of A taken twice, the norm of B never
cosine_similarity_normA(A, B) ==
  IF Len(A) # Len(B)
    THEN Raised("ValueError")
    ELSE Divide(Dot(A, B, Prec(dtype)),
                FMul(Norm(A, Prec(dtype)), Norm(A, Prec(dtype)), Prec(dtype)),
                Prec(dtype))

\* the dot product divided by the norm of A alone
cosine_similarity_unnormB(A, B) ==
  IF Len(A) # Len(B)
    THEN Raised("ValueError")
    ELSE Divide(Dot(A, B, Prec(dtype)), Norm(A, Prec(dtype)), Prec(dtype))

\* the longer vector cut to the length of the shorter, as zip() would
cosine_similarity_zip(A, B) ==
  LET m  == IF Len(A) < Len(B) THEN Len(A) ELSE Len(B)
      A1 == SubSeq(A, 1, m)
      B1 == SubSeq(B, 1, m)
  IN  Divide(Dot(A1, B1, Prec(dtype)),
             FMul(Norm(A1, Prec(dtype)), Norm(B1, Prec(dtype)), Prec(dtype)),
             Prec(dtype))

\* the shorter vector padded with zeros to the length of the longer
cosine_similarity_pad(A, B) ==
  LET m  == IF Len(A) < Len(B) THEN Len(B) ELSE Len(A)
      A1 == [k \in 1..m |-> IF k <= Len(A) THEN A[k] ELSE 0]
      B1 == [k \in 1..m |-> IF k <= Len(B) THEN B[k] ELSE 0]
  IN  Divide(Dot(A1, B1, Prec(dtype)),
             FMul(Norm(A1, Prec(dtype)), Norm(B1, Prec(dtype)), Prec(dtype)),
             Prec(dtype))

\* np.dot(A, B) / (np.linalg.norm(A) * np.linalg.norm(B)); np.dot is evaluated
\* first and refuses operands of different length
cosine_similarity(A, B) ==
  IF Len(A) # Len(B)
    THEN Raised("ValueError")
    ELSE Divide(Dot(A, B, Prec(dtype)),
                FMul(Norm(A, Prec(dtype)), Norm(B, Prec(dtype)), Prec(dtype)),
                Prec(dtype))

(***************************************************************************)
(* Matrices: np.zeros((r, c), dtype=np.float32), indexed from 0.           *)
(***************************************************************************)
\* an allocation that never has fewer than one row and one column
Zeros_nonempty(r, c) ==
  [rows |-> IF r = 0 THEN 1 ELSE r, cols |-> IF c = 0 THEN 1 ELSE c,
   cell |-> [x \in (0..(IF r = 0 THEN 1 ELSE r) - 1)
                    \X (0..(IF c = 0 THEN 1 ELSE c) - 1) |-> Zero]]

Zeros(r, c) == [rows |-> r, cols |-> c,
                cell |-> [x \in (0..r - 1) \X (0..c - 1) |-> Zero]]

\* matrix[a] = v: the whole row a is overwritten
Store_row(mat, a, b, v) ==
  [mat EXCEPT !.cell = [x \in DOMAIN @ |->
                          IF x[1] = a THEN Cast(v, MantBits32) ELSE @[x]]]

\* matrix[a, b] = v on a float32 matrix
Store(mat, a, b, v) ==
  [mat EXCEPT !.cell = [@ EXCEPT ![<<a, b>>] = Cast(v, MantBits32)]]

NoResult == [returned |-> FALSE, value |-> Zeros(0, 0)]

\* a data frame with the columns cols: the row labels and one sequence per column
Frame(cols, index, raw, mw) == [columns |-> cols, index |-> index, Raw |-> raw, MW |-> mw]

\* the dataset notebook has not run
NoData ==
  /\ cell = "load"
  /\ smi_list = <<>>
  /\ combined_jac = <<>>
  /\ jac_missing = <<>>
  /\ molecular_weights = <<>>
  /\ mol_df = Frame({}, <<>>, <<>>, <<>>)

\* a name the notebook has not bound yet
Unbound == "<unbound>"

\* no file is written and no table is loaded, but for the cells in use
NoTablesBut(used) ==
  /\ IF used = "dump" THEN TRUE ELSE collected_smiles = <<>>
  /\ IF used = "check" THEN TRUE ELSE checklist = <<>> /\ Check = <<>>
  /\ IF used = "kida" THEN TRUE ELSE kida_df = <<>> /\ kida_smiles = <<>>
  /\ IF used = "load" THEN TRUE ELSE smi_files = <<>> /\ loaded = 0
  /\ IF used = "tmc" THEN TRUE
     ELSE /\ df = <<>>
          /\ ignored = <<>>
          /\ tmc_1_vecs = <<>>
          /\ molecule_dict = <<>>
          /\ raised = "none"
  /\ IF used = "scrape" THEN TRUE
     ELSE /\ soup = <<>>
          /\ map_dict = <<>>
          /\ name = Unbound
          /\ scraped = 0

NoTables == NoTablesBut("none")

\* the similarity notebook has not run
SimIdle ==
  /\ mode = "nopython"
  /\ dtype = "float32"
  /\ vectors = <<>>
  /\ args = <<>>
  /\ pc = "idle"
  /\ n = 0
  /\ i = 0
  /\ j = 0
  /\ matrix = Zeros(0, 0)
  /\ ret = NoResult
  /\ err = "none"
  /\ sim = Returned(Zero)
  /\ calls = <<>>
  /\ kept = <<>>
  /\ pending = {}

(***************************************************************************)
(* The program: the notebook either runs pairwise_similarity(vectors) or    *)
(* calls cosine_similarity(A, B) on two vectors, args = <<A, B>>.          *)
(***************************************************************************)
Init ==
  /\ mode \in Modes
  /\ dtype \in DTypes
  /\ \/ vectors \in Inputs \cup {Scenario} /\ args = <<>>
     \/ vectors = <<>> /\ args \in Vec \X Vec
  /\ pc = "start"
  /\ n = 0
  /\ i = 0
  /\ j = 0
  /\ matrix = Zeros(0, 0)
  /\ ret = NoResult
  /\ err = "none"
  /\ sim = Returned(Zero)
  /\ calls = <<>>
  /\ kept = <<>>
  /\ pending = {}
  /\ NoData
  /\ NoTables

\* an entry that leaves the row index where the previous invocation stopped
Enter_resume ==
  /\ pc = "start"
  /\ args = <<>>
  /\ n' = Len(vectors)
  /\ matrix' = Zeros(Len(vectors), Len(vectors))
  /\ i' = i
  /\ j' = 0
  /\ pc' = "loop"
  /\ UNCHANGED <<mode, dtype, vectors, ret, err, args, sim, calls, kept, pending>>
  /\ UNCHANGED <<dataVars, tableVars>>

\* n = len(vectors); matrix = np.zeros((n, n), dtype=np.float32)
Enter ==
  /\ pc = "start"
  /\ args = <<>>
  /\ n' = Len(vectors)
  /\ matrix' = Zeros(Len(vectors), Len(vectors))
  /\ i' = 0
  /\ j' = 0
  /\ pc' = "loop"
  /\ UNCHANGED <<mode, dtype, vectors, ret, err, args, sim, calls, kept, pending>>
  /\ UNCHANGED <<dataVars, tableVars>>

\* a loop body that fills the mirror cell as well, so that a pair is
\* computed once for both orders
LoopBody_mirror ==
  /\ pc = "loop"
  /\ i < n
  /\ calls' = Append(calls, <<i, j>>)
  /\ LET r == cosine_similarity(vectors[i + 1], vectors[j + 1])
     IN  IF r.err # "none"
           THEN /\ pc' = "raised"
                /\ err' = r.err
                /\ UNCHANGED <<matrix, i, j>>
           ELSE /\ matrix' = Store(Store(matrix, i, j, r.val), j, i, r.val)
                /\ IF j + 1 < n
                     THEN i' = i /\ j' = j + 1
                     ELSE i' = i + 1 /\ j' = 0
                /\ UNCHANGED <<pc, err>>
  /\ UNCHANGED <<mode, dtype, vectors, n, ret, args, sim, kept, pending>>
  /\ UNCHANGED <<dataVars, tableVars>>

\* a loop body that normalises its operand where it lies: vectors[i] is
\* overwritten before the cell is stored
LoopBody_inplace ==
  /\ pc = "loop"
  /\ i < n
  /\ calls' = Append(calls, <<i, j>>)
  /\ vectors' = [vectors EXCEPT ![i + 1] = [k \in DOMAIN vectors[i + 1] |-> Sgn(vectors[i + 1][k])]]
  /\ LET r == cosine_similarity(vectors[i + 1], vectors[j + 1])
     IN  IF r.err # "none"
           THEN /\ pc' = "raised"
                /\ err' = r.err
                /\ UNCHANGED <<matrix, i, j>>
           ELSE /\ matrix' = Store(matrix, i, j, r.val)
                /\ IF j + 1 < n
                     THEN i' = i /\ j' = j + 1
                     ELSE i' = i + 1 /\ j' = 0
                /\ UNCHANGED <<pc, err>>
  /\ UNCHANGED <<mode, dtype, n, ret, args, sim, kept, pending>>
  /\ UNCHANGED <<dataVars, tableVars>>

\* one pass of the inner loop body: matrix[i,j] = cosine_similarity(vectors[i], vectors[j])
LoopBody ==
  /\ pc = "loop"
  /\ i < n
  /\ calls' = Append(calls, <<i, j>>)
  /\ LET r == cosine_similarity(vectors[i + 1], vectors[j + 1])
     IN  IF r.err # "none"
           THEN /\ pc' = "raised"
                /\ err' = r.err
                /\ UNCHANGED <<matrix, i, j>>
           ELSE /\ matrix' = Store(matrix, i, j, r.val)
                /\ IF j + 1 < n
                     THEN i' = i /\ j' = j + 1
                     ELSE i' = i + 1 /\ j' = 0
                /\ UNCHANGED <<pc, err>>
  /\ UNCHANGED <<mode, dtype, vectors, n, ret, args, sim, kept, pending>>
  /\ UNCHANGED <<dataVars, tableVars>>

\* a return that waits for a row index beyond the last row
Return_beyond ==
  /\ pc = "loop"
  /\ i > n
  /\ ret' = [returned |-> TRUE, value |-> matrix]
  /\ pc' = "done"
  /\ UNCHANGED <<mode, dtype, vectors, n, i, j, matrix, err, args, sim, calls,
                 kept, pending>>
  /\ UNCHANGED <<dataVars, tableVars>>

\* return matrix
Return ==
  /\ pc = "loop"
  /\ i >= n
  /\ ret' = [returned |-> TRUE, value |-> matrix]
  /\ pc' = "done"
  /\ UNCHANGED <<mode, dtype, vectors, n, i, j, matrix, err, args, sim, calls,
                 kept, pending>>
  /\ UNCHANGED <<dataVars, tableVars>>

\* a direct call cosine_similarity(A, B) from the notebook
Similarity ==
  /\ pc = "start"
  /\ args # <<>>
  /\ sim' = cosine_similarity(args[1], args[2])
  /\ pc' = "called"
  /\ UNCHANGED <<mode, dtype, vectors, n, i, j, matrix, ret, err, args, calls,
                 kept, pending>>
  /\ UNCHANGED <<dataVars, tableVars>>

Next == Enter \/ LoopBody \/ Return \/ Similarity

Spec == Init /\ [][Next]_vars

(***************************************************************************)
(* The notebook invoking pairwise_similarity over and over, on the inputs  *)
(* built from a zero vector and a vector of another length, so that an     *)
(* invocation may return, divide by zero or meet unequal lengths.          *)
(***************************************************************************)
FewRows == {<<0>>, <<1, 2>>}

FewInputs == UNION {[1..k -> FewRows] : k \in 0..MaxN}

\* what the finished invocation gave its caller
Outcome ==
  IF pc = "done" THEN [err |-> "none", value |-> ret.value]
  ELSE [err |-> err, value |-> Zeros(0, 0)]

InitAgain ==
  /\ mode \in Modes
  /\ dtype \in DTypes
  /\ vectors \in FewInputs
  /\ args = <<>>
  /\ pc = "start"
  /\ n = 0
  /\ i = 0
  /\ j = 0
  /\ matrix = Zeros(0, 0)
  /\ ret = NoResult
  /\ err = "none"
  /\ sim = Returned(Zero)
  /\ calls = <<>>
  /\ kept = <<>>
  /\ pending = {}
  /\ NoData
  /\ NoTables

\* the invocation is over and the notebook calls pairwise_similarity again,
\* on any input; the locals of the finished invocation are dead, whatever
\* they hold, and the caller may have kept what it was given
Again ==
  /\ pc \in {"done", "raised"}
  /\ vectors' \in FewInputs
  /\ kept' \in {kept, <<[input |-> vectors, outcome |-> Outcome]>>}
  /\ pc' = "start"
  /\ ret' = NoResult
  /\ err' = "none"
  /\ calls' = <<>>
  /\ UNCHANGED <<mode, dtype, n, i, j, matrix, args, sim, pending>>
  /\ UNCHANGED <<dataVars, tableVars>>

NextAgain == Enter \/ LoopBody \/ Return \/ Again

SpecAgain == InitAgain /\ [][NextAgain]_vars

(***************************************************************************)
(* The loop body handed to workers ("Should parallelize it"): after the    *)
(* sequential invocation has ended and its outcome is kept, the n * n cell *)
(* computations of the same input are run again on a fresh matrix, one     *)
(* pending cell at a time in whatever order the workers take them.  A cell *)
(* computation reads only the input, which nothing writes, and writes only *)
(* its own cell, so every interleaving of the workers' reads and writes    *)
(* has the effect of the computations taken one after another.             *)
(***************************************************************************)
ParRows == {<<1, 0>>, <<1, 2>>, <<0>>}

ParInputs == UNION {[1..k -> ParRows] : k \in 0..MaxN}

InitPar ==
  /\ mode \in Modes
  /\ dtype \in DTypes
  /\ vectors \in ParInputs
  /\ args = <<>>
  /\ pc = "start"
  /\ n = 0
  /\ i = 0
  /\ j = 0
  /\ matrix = Zeros(0, 0)
  /\ ret = NoResult
  /\ err = "none"
  /\ sim = Returned(Zero)
  /\ calls = <<>>
  /\ kept = <<>>
  /\ pending = {}
  /\ NoData
  /\ NoTables

\* the outcome of the sequential loop is kept and every cell is handed out
Fork ==
  /\ pc \in {"done", "raised"}
  /\ kept' = <<[input |-> vectors, outcome |-> Outcome]>>
  /\ matrix' = Zeros(n, n)
  /\ pending' = (0..n - 1) \X (0..n - 1)
  /\ pc' = "par"
  /\ ret' = NoResult
  /\ err' = "none"
  /\ UNCHANGED <<mode, dtype, vectors, n, i, j, args, sim, calls>>
  /\ UNCHANGED <<dataVars, tableVars>>

\* a worker runs the loop body for a pending cell c:
\* matrix[c] = cosine_similarity(vectors[c[0]], vectors[c[1]])
Worker ==
  /\ pc = "par"
  /\ \E c \in pending :
       LET r == cosine_similarity(vectors[c[1] + 1], vectors[c[2] + 1])
       IN  IF r.err # "none"
             THEN /\ pc' = "failed"
                  /\ err' = r.err
                  /\ UNCHANGED <<matrix, pending>>
             ELSE /\ matrix' = Store(matrix, c[1], c[2], r.val)
                  /\ pending' = pending \ {c}
                  /\ UNCHANGED <<pc, err>>
  /\ UNCHANGED <<mode, dtype, vectors, n, i, j, ret, args, sim, calls, kept>>
  /\ UNCHANGED <<dataVars, tableVars>>

\* every cell is written: return matrix
Join ==
  /\ pc = "par"
  /\ pending = {}
  /\ ret' = [returned |-> TRUE, value |-> matrix]
  /\ pc' = "joined"
  /\ UNCHANGED <<mode, dtype, vectors, n, i, j, matrix, err, args, sim, calls,
                 kept, pending>>
  /\ UNCHANGED <<dataVars, tableVars>>

NextPar == Enter \/ LoopBody \/ Return \/ Fork \/ Worker \/ Join

SpecPar == InitPar /\ [][NextPar]_vars

(***************************************************************************)
(* The same program from the notebook's first cell on: the vectors are     *)
(* built (vectors = sentences2vec(...)) and the functions compiled before  *)
(* pairwise_similarity is invoked, and the interpreter keeps running: a    *)
(* step that can be taken is eventually taken.                             *)
(***************************************************************************)
InitLive ==
  /\ mode = "nopython"
  /\ dtype = "float32"
  /\ vectors = <<>>
  /\ args = <<>>
  /\ pc = "idle"
  /\ n = 0
  /\ i = 0
  /\ j = 0
  /\ matrix = Zeros(0, 0)
  /\ ret = NoResult
  /\ err = "none"
  /\ sim = Returned(Zero)
  /\ calls = <<>>
  /\ kept = <<>>
  /\ pending = {}
  /\ NoData
  /\ NoTables

\* the cells before the invocation: any finite input, element type and build
Build ==
  /\ pc = "idle"
  /\ vectors' \in ParInputs
  /\ mode' \in Modes
  /\ dtype' \in DTypes
  /\ pc' = "start"
  /\ UNCHANGED <<n, i, j, matrix, ret, err, args, sim, calls, kept, pending>>
  /\ UNCHANGED <<dataVars, tableVars>>

NextLive == Build \/ Enter \/ LoopBody \/ Return

\* a pass of the loop body as its pass counter shows it: the steps of
\* NextLive that lengthen calls are the steps of LoopBody, and LoopBody can
\* be taken exactly when pc = "loop" and i < n
LoopPass ==
  /\ pc = "loop"
  /\ i < n
  /\ calls' = Append(calls, <<i, j>>)

SpecLive ==
  /\ InitLive
  /\ [][NextLive]_vars
  /\ WF_vars(Build)
  /\ WF_vars(Enter)
  /\ WF_calls(LoopPass)
  /\ WF_vars(Return)

(***************************************************************************)
(* The dataset notebook from "Adding extra SMILES from Jacqueline's        *)
(* analysis" to the saved frame.  smi_list holds what QM9, the .smi files  *)
(* and KIDA gave; combined_jac is pd.concat([jac_df, jac_df2]).  A data    *)
(* frame is kept column by column with its row labels.                     *)
(***************************************************************************)
\* SMILES strings: two spellings of methyl cyanide, hydrogen cyanide, and a
\* string the toolkit cannot parse
SmilesPool == {"CC#N", "N#CC", "C#N", "C("}

\* Chem.MolFromSmiles(smi, sanitize=False) gives a molecule, not None
Parses(smi) == smi # "C("

\* Descriptors.ExactMolWt(mol), to the nearest unit
ExactMolWt(smi) == IF smi = "C#N" THEN 27 ELSE 41

SeqsUpTo(S, k) == UNION {[1..m -> S] : m \in 0..k}

Range(q) == {q[k] : k \in DOMAIN q}

InitData ==
  /\ mode = "nopython"
  /\ dtype = "float32"
  /\ vectors = <<>>
  /\ args = <<>>
  /\ pc = "idle"
  /\ n = 0
  /\ i = 0
  /\ j = 0
  /\ matrix = Zeros(0, 0)
  /\ ret = NoResult
  /\ err = "none"
  /\ sim = Returned(Zero)
  /\ calls = <<>>
  /\ kept = <<>>
  /\ pending = {}
  /\ cell = "missing"
  /\ smi_list \in SeqsUpTo(SmilesPool, MaxRows)
  /\ combined_jac \in SeqsUpTo(SmilesPool, MaxNames)
  /\ jac_missing = <<>>
  /\ molecular_weights = <<>>
  /\ mol_df = Frame({}, <<>>, <<>>, <<>>)
  /\ NoTables

\* missing = combined_jac.loc[~combined_jac["Notation"].isin(smi_list)]
\* jac_missing = missing["Notation"].to_list()
Missing ==
  /\ cell = "missing"
  /\ jac_missing' = SelectSeq(combined_jac, LAMBDA x : x \notin Range(smi_list))
  /\ cell' = "frame"
  /\ UNCHANGED <<smi_list, combined_jac, molecular_weights, mol_df>>
  /\ UNCHANGED <<simVars, tableVars>>

\* mol_df = pd.DataFrame(data=smi_list); mol_df.columns = ["Raw"]
MakeFrame ==
  /\ cell = "frame"
  /\ mol_df' = Frame({"Raw"}, [k \in 1..Len(smi_list) |-> k - 1], smi_list, <<>>)
  /\ cell' = "weights"
  /\ UNCHANGED <<smi_list, combined_jac, jac_missing, molecular_weights>>
  /\ UNCHANGED <<simVars, tableVars>>

\* the entries of smi_list before the first one that does not parse
RECURSIVE Parsed(_, _)
Parsed(q, k) ==
  IF k > Len(q) \/ ~Parses(q[k]) THEN k - 1 ELSE Parsed(q, k + 1)

\* for smi in smi_list: mol = Chem.MolFromSmiles(smi, sanitize=False);
\* mol.UpdatePropertyCache(strict=False);
\* molecular_weights.append(Descriptors.ExactMolWt(mol))
\* (AttributeError on the None of a string that does not parse)
Weights ==
  /\ cell = "weights"
  /\ LET m == Parsed(smi_list, 1)
     IN  /\ molecular_weights' = [k \in 1..m |-> ExactMolWt(smi_list[k])]
         /\ cell' = IF m = Len(smi_list) THEN "assign" ELSE "error"
  /\ UNCHANGED <<smi_list, combined_jac, jac_missing, mol_df>>
  /\ UNCHANGED <<simVars, tableVars>>

\* mol_df["MW"] = molecular_weights
AssignMW ==
  /\ cell = "assign"
  /\ mol_df' = [mol_df EXCEPT !.columns = @ \cup {"MW"}, !.MW = molecular_weights]
  /\ cell' = "dedup"
  /\ UNCHANGED <<smi_list, combined_jac, jac_missing, molecular_weights>>
  /\ UNCHANGED <<simVars, tableVars>>

\* the rows that keep="last" would keep
Firsts_last(raw) ==
  SelectSeq([k \in 1..Len(raw) |-> k],
            LAMBDA k : \A m \in k + 1..Len(raw) : raw[m] # raw[k])

\* the rows drop_duplicates keeps (keep="first"): those whose value has not
\* occurred in an earlier row
Firsts(raw) ==
  SelectSeq([k \in 1..Len(raw) |-> k],
            LAMBDA k : \A m \in 1..k - 1 : raw[m] # raw[k])

\* the entries of a column at the kept rows
Pick(col, keep) == [m \in 1..Len(keep) |-> col[keep[m]]]

\* mol_df.drop_duplicates("Raw", inplace=True)
DropDuplicates ==
  /\ cell = "dedup"
  /\ LET keep == Firsts(mol_df.Raw)
     IN  mol_df' = Frame(mol_df.columns, Pick(mol_df.index, keep),
                         Pick(mol_df.Raw, keep), Pick(mol_df.MW, keep))
  /\ cell' = "saved"
  /\ UNCHANGED <<smi_list, combined_jac, jac_missing, molecular_weights>>
  /\ UNCHANGED <<simVars, tableVars>>

NextData == Missing \/ MakeFrame \/ Weights \/ AssignMW \/ DropDuplicates

SpecData == InitData /\ [][NextData]_vars

(***************************************************************************)
(* The SMILES dump of the dataset notebook and its reading in the          *)
(* similarity notebook.  Here a string is the sequence of its characters:  *)
(* "C" and "N" stand for the characters of a SMILES, "SP" for a blank,     *)
(* "LF" for the line feed and "QUOTE" for the double quote.                *)
(***************************************************************************)
Chars == {"C", "N", "SP"}

Strings == SeqsUpTo(Chars, MaxStr)

\* the Raw columns drop_duplicates can leave: no string twice
DedupColumns ==
  {q \in SeqsUpTo(Strings, MaxLines) :
     \A a, b \in 1..Len(q) : a # b => q[a] # q[b]}

RECURSIVE Doubled(_)
\* a field with every double quote written twice
Doubled(v) ==
  IF v = <<>> THEN <<>>
  ELSE IF Head(v) = "QUOTE" THEN <<"QUOTE", "QUOTE">> \o Doubled(Tail(v))
  ELSE <<Head(v)>> \o Doubled(Tail(v))

\* a field without the quotes an empty or a special field gets
Field_bare(v) == v

\* one field as the csv writer writes it (minimal quoting): a field holding
\* the separator, the line terminator or a quote is quoted, and so is the
\* empty field of a one-column row
Field(v) ==
  IF v = <<>> \/ \E k \in 1..Len(v) : v[k] \in {"LF", "QUOTE"}
    THEN <<"QUOTE">> \o Doubled(v) \o <<"QUOTE">>
    ELSE v

RECURSIVE ToCsv(_)
\* to_csv(sep="\n", index=False, header=None) of one column: a field and a
\* line feed per row
ToCsv(col) ==
  IF col = <<>> THEN <<>>
  ELSE Field(Head(col)) \o <<"LF">> \o ToCsv(Tail(col))

RECURSIVE ReadLinesFrom(_, _)
\* read_file.readlines(): the lines of the file, each with its line feed;
\* cur is the line being read
ReadLinesFrom(f, cur) ==
  IF f = <<>> THEN (IF cur = <<>> THEN <<>> ELSE <<cur>>)
  ELSE IF Head(f) = "LF" THEN <<Append(cur, "LF")>> \o ReadLinesFrom(Tail(f), <<>>)
  ELSE ReadLinesFrom(Tail(f), Append(cur, Head(f)))

Whitespace == {"SP", "LF"}

RECURSIVE LStrip(_)
LStrip(v) == IF v # <<>> /\ Head(v) \in Whitespace THEN LStrip(Tail(v)) ELSE v

RECURSIVE RStrip(_)
RStrip(v) ==
  IF v # <<>> /\ v[Len(v)] \in Whitespace THEN RStrip(SubSeq(v, 1, Len(v) - 1)) ELSE v

\* a strip that takes off the line feed only
Strip_newline(v) == IF v # <<>> /\ v[Len(v)] = "LF" THEN SubSeq(v, 1, Len(v) - 1) ELSE v

\* smi.strip(): without the whitespace at both ends
Strip(v) == LStrip(RStrip(v))

\* the deduplicated frame (here its Raw column alone, the one that is
\* written) and a fresh similarity notebook
InitDump ==
  /\ SimIdle
  /\ cell = "dump"
  /\ smi_list = <<>>
  /\ combined_jac = <<>>
  /\ jac_missing = <<>>
  /\ molecular_weights = <<>>
  /\ \E raw \in DedupColumns :
       mol_df = Frame({"Raw"}, [k \in 1..Len(raw) |-> k - 1], raw, <<>>)
  /\ NoTables

\* mol_df["Raw"].to_csv("./collected_smiles.smi", sep="\n", index=False, header=None)
Dump ==
  /\ cell = "dump"
  /\ collected_smiles' = ToCsv(mol_df.Raw)
  /\ UNCHANGED NotDumpVars
  /\ cell' = "readlines"
  /\ UNCHANGED <<smi_list, combined_jac, jac_missing, molecular_weights, mol_df>>
  /\ UNCHANGED simVars

\* with open("collected_smiles.smi") as read_file: smi_list = read_file.readlines()
ReadLines ==
  /\ cell = "readlines"
  /\ smi_list' = ReadLinesFrom(collected_smiles, <<>>)
  /\ cell' = "strip"
  /\ UNCHANGED <<combined_jac, jac_missing, molecular_weights, mol_df>>
  /\ UNCHANGED <<simVars, tableVars>>

\* smi_list = [smi.strip() for smi in smi_list]
StripLines ==
  /\ cell = "strip"
  /\ smi_list' = [k \in 1..Len(smi_list) |-> Strip(smi_list[k])]
  /\ cell' = "read"
  /\ UNCHANGED <<combined_jac, jac_missing, molecular_weights, mol_df>>
  /\ UNCHANGED <<simVars, tableVars>>

NextDump == Dump \/ ReadLines \/ StripLines

SpecDump == InitDump /\ [][NextDump]_vars

(***************************************************************************)
(* The microscopic inspection of the dataset notebook: the checklist is    *)
(* canonicised and the frame gets its Check column.                        *)
(***************************************************************************)
\* Chem.MolToSmiles(Chem.MolFromSmiles(smi, sanitize=False), canonical=True)
\* on the strings of the model: the canonical spelling of vinyl cyanide is
\* C=CC#N, that of methyl cyanide CC#N
canonicize_smi(smi) ==
  IF smi = "N#CC=C" THEN "C=CC#N"
  ELSE IF smi = "N#CC" THEN "CC#N"
  ELSE smi

\* checklist = ["CC=O", ..., "N#CC=C", "CC#N", ..., "C#N", ...]: the entries
\* that matter to the strings of the model
ChecklistLiteral == <<"N#CC=C", "CC#N", "C#N">>

\* mol_df right after it is made from smi_list
InitCheck ==
  /\ SimIdle
  /\ cell = "canonicize"
  /\ smi_list \in SeqsUpTo(SmilesPool, MaxRows)
  /\ combined_jac = <<>>
  /\ jac_missing = <<>>
  /\ molecular_weights = <<>>
  /\ mol_df = Frame({"Raw"}, [k \in 1..Len(smi_list) |-> k - 1], smi_list, <<>>)
  /\ checklist = ChecklistLiteral
  /\ Check = <<>>
  /\ NoTablesBut("check")

\* checklist = [canonicize_smi(smi) for smi in checklist]
Canonicize ==
  /\ cell = "canonicize"
  /\ checklist' = [k \in 1..Len(checklist) |-> canonicize_smi(checklist[k])]
  /\ cell' = "check"
  /\ UNCHANGED <<smi_list, combined_jac, jac_missing, molecular_weights, mol_df>>
  /\ UNCHANGED <<Check, NotCheckVars>>
  /\ UNCHANGED simVars

\* mol_df.loc[:, "Check"] = mol_df["Raw"].isin(checklist)
CheckColumn ==
  /\ cell = "check"
  /\ Check' = [k \in 1..Len(mol_df.Raw) |-> mol_df.Raw[k] \in Range(checklist)]
  /\ mol_df' = [mol_df EXCEPT !.columns = @ \cup {"Check"}]
  /\ cell' = "checked"
  /\ UNCHANGED <<smi_list, combined_jac, jac_missing, molecular_weights>>
  /\ UNCHANGED <<checklist, NotCheckVars>>
  /\ UNCHANGED simVars

NextCheck == Canonicize \/ CheckColumn

SpecCheck == InitCheck /\ [][NextCheck]_vars

(***************************************************************************)
(* Vocabulary of the properties.                                           *)
(***************************************************************************)
NonZero(A) == \E k \in 1..Len(A) : A[k] # 0

AllNonZero == \A a \in 1..Len(vectors) : NonZero(vectors[a])

EqualLen == \A a, b \in 1..Len(vectors) : Len(vectors[a]) = Len(vectors[b])

Ragged == ~EqualLen

\* the number 1
One == [nan |-> FALSE, sign |-> 1, man |-> 1, exp |-> 0]

RECURSIVE Widen(_, _)
\* the least m * 2^s that is at least 2^(p-1)
Widen(m, p) == IF m >= 2^(p - 1) THEN m ELSE Widen(2 * m, p)

RECURSIVE WidenBy(_, _)
\* the s of Widen
WidenBy(m, p) == IF m >= 2^(p - 1) THEN 0 ELSE 1 + WidenBy(2 * m, p)

\* |x| <= 1 + k * 2^(1-p): at most k units in the last place above 1
AbsWithinOne(x, p, k) ==
  /\ ~x.nan
  /\ \/ x.sign = 0
     \/ x.exp - WidenBy(x.man, p) < 1 - p
     \/ /\ x.exp - WidenBy(x.man, p) = 1 - p
        /\ Widen(x.man, p) <= 2^(p - 1) + k

\* |x - 1| <= k * 2^(1-p)
NearOne(x, p, k) ==
  /\ ~x.nan
  /\ x.sign = 1
  /\ \/ /\ x.exp - WidenBy(x.man, p) = 1 - p
        /\ Widen(x.man, p) <= 2^(p - 1) + k
     \/ /\ x.exp - WidenBy(x.man, p) = 0 - p
        /\ Widen(x.man, p) >= 2^p - 2 * k

\* the cells of the running matrix that the loop has written so far
Written == {x \in DOMAIN matrix.cell : x[1] < i \/ (x[1] = i /\ x[2] < j)}

\* the direct call has returned or raised, with equal-length non-zero operands
CalledProper ==
  /\ pc = "called"
  /\ Len(args[1]) = Len(args[2])
  /\ NonZero(args[1])
  /\ NonZero(args[2])

(***************************************************************************)
(* C1.  As claimed: for equal-length non-zero vectors the result is an     *)
(* n x n matrix whose entry (i, j) equals                                  *)
(* cosine_similarity(vectors[i], vectors[j]).                              *)
(***************************************************************************)
C1_EntryIsCosine ==
  (args = <<>> /\ EqualLen /\ AllNonZero) =>
    /\ pc # "raised"
    /\ pc = "done" =>
         /\ ret.returned
         /\ ret.value.rows = Len(vectors)
         /\ ret.value.cols = Len(vectors)
         /\ \A a, b \in 0..Len(vectors) - 1 :
              ret.value.cell[<<a, b>>]
                = cosine_similarity(vectors[a + 1], vectors[b + 1]).val

\* C1 as amended: entry (i, j) is cosine_similarity(vectors[i], vectors[j])
\* rounded to the float32 element type of the matrix, which is the value
\* itself when the vectors are float32.
C1_EntryIsCosineRounded ==
  (args = <<>> /\ EqualLen /\ AllNonZero) =>
    /\ pc # "raised"
    /\ pc = "done" =>
         /\ ret.returned
         /\ ret.value.rows = Len(vectors)
         /\ ret.value.cols = Len(vectors)
         /\ DOMAIN ret.value.cell = (0..Len(vectors) - 1) \X (0..Len(vectors) - 1)
         /\ \A a, b \in 0..Len(vectors) - 1 :
              LET c == cosine_similarity(vectors[a + 1], vectors[b + 1])
              IN  /\ c.err = "none"
                  /\ ret.value.cell[<<a, b>>] = Cast(c.val, MantBits32)
                  /\ dtype = "float32" => ret.value.cell[<<a, b>>] = c.val

C1_Witness ==
  /\ pc = "done"
  /\ Len(vectors) = 2
  /\ EqualLen
  /\ AllNonZero
  /\ vectors[1] # vectors[2]
  /\ dtype = "float64"
  /\ \E a, b \in 0..1 :
       /\ a # b
       /\ ret.value.cell[<<a, b>>]
            # cosine_similarity(vectors[a + 1], vectors[b + 1]).val
       /\ ret.value.cell[<<a, b>>]
            = Cast(cosine_similarity(vectors[a + 1], vectors[b + 1]).val, MantBits32)

(***************************************************************************)
(* C2.  For equal-length vectors of non-zero norm, cosine_similarity(A, B) *)
(* is dot(A, B) divided by the product norm(A) * norm(B): the call returns *)
(* that quotient, with the sign of the exact dot product.                  *)
(***************************************************************************)
C2_CosineIsDotOverNorms ==
  CalledProper =>
    LET p == Prec(dtype)
        A == args[1]
        B == args[2]
    IN  /\ sim.err = "none"
        /\ ~sim.val.nan
        /\ sim.val = FDiv(Dot(A, B, p), FMul(Norm(A, p), Norm(B, p), p), p)
        /\ sim.val.sign = Sgn(SumProd(A, B, Len(A)))

C2_Witness ==
  /\ CalledProper
  /\ Len(args[1]) = 2
  /\ args[1] # args[2]
  /\ sim.val.sign = 1
  /\ sim.val # One
  /\ Norm(args[1], Prec(dtype)) # Norm(args[2], Prec(dtype))

(***************************************************************************)
(* C3.  For equal-length non-zero vectors the returned matrix is           *)
(* symmetric: matrix[i][j] = matrix[j][i] for all i, j.                    *)
(***************************************************************************)
C3_Symmetric ==
  (pc = "done" /\ EqualLen /\ AllNonZero) =>
    \A a, b \in 0..Len(vectors) - 1 :
      ret.value.cell[<<a, b>>] = ret.value.cell[<<b, a>>]

C3_Witness ==
  /\ pc = "done"
  /\ Len(vectors) = 2
  /\ AllNonZero
  /\ Norm(vectors[1], Prec(dtype)) # Norm(vectors[2], Prec(dtype))
  /\ ret.value.cell[<<0, 1>>].sign = -1
  /\ ret.value.cell[<<0, 1>>] = ret.value.cell[<<1, 0>>]

(***************************************************************************)
(* C4.  As claimed: cosine_similarity(V, V) equals 1 for every non-zero V, *)
(* and every diagonal entry of the matrix is 1 when vectors[i] is          *)
(* non-zero.                                                               *)
(***************************************************************************)
C4_SelfSimilarityIsOne ==
  /\ (CalledProper /\ args[1] = args[2]) => sim.val = One
  /\ pc = "done" =>
       \A a \in 0..Len(vectors) - 1 :
         NonZero(vectors[a + 1]) => ret.value.cell[<<a, a>>] = One

\* C4 as amended: cosine_similarity(V, V) and the diagonal entries are 1 up
\* to floating-point rounding, at most two units in the last place away.
C4_SelfSimilarityNearOne ==
  /\ (CalledProper /\ args[1] = args[2]) =>
       sim.err = "none" /\ NearOne(sim.val, Prec(dtype), 2)
  /\ pc \in {"loop", "done", "raised"} =>
       \A x \in Written :
         (x[1] = x[2] /\ NonZero(vectors[x[1] + 1])) =>
           NearOne(matrix.cell[x], MantBits32, 2)
  /\ pc = "done" =>
       \A a \in 0..Len(vectors) - 1 :
         NonZero(vectors[a + 1]) => NearOne(ret.value.cell[<<a, a>>], MantBits32, 2)

C4_Witness ==
  /\ CalledProper
  /\ args[1] = args[2]
  /\ sim.val # One
  /\ NearOne(sim.val, Prec(dtype), 1)

(***************************************************************************)
(* C5.  cosine_similarity(A, B) = cosine_similarity(B, A) exactly: the     *)
(* order of the arguments changes neither the value nor the error.         *)
(***************************************************************************)
C5_Commutative ==
  /\ pc = "called" => sim = cosine_similarity(args[2], args[1])
  /\ CalledProper => sim.err = "none" /\ ~sim.val.nan

C5_Witness ==
  /\ CalledProper
  /\ args[1] # args[2]
  /\ Norm(args[1], Prec(dtype)) # Norm(args[2], Prec(dtype))
  /\ sim.val.sign = 1
  /\ sim = cosine_similarity(args[2], args[1])

C7_NoSilentNaN ==
  /\ pc = "called" => ~sim.val.nan
  /\ pc = "done" => \A x \in DOMAIN ret.value.cell : ~ret.value.cell[x].nan

(***************************************************************************)
(* C8.  cosine_similarity on two vectors of unequal length ends in the     *)
(* dimension-mismatch error (ValueError) and returns no number.            *)
(***************************************************************************)
C8_MismatchRaises ==
  (pc = "called" /\ Len(args[1]) # Len(args[2])) =>
    /\ sim.err = "ValueError"
    /\ sim = Raised("ValueError")

C8_Witness ==
  /\ pc = "called"
  /\ Len(args[1]) = 1
  /\ Len(args[2]) = 2
  /\ ~NonZero(args[1])
  /\ sim.err = "ValueError"

(***************************************************************************)
(* C9.  As claimed: pairwise_similarity on a sequence with two vectors of  *)
(* different length ends in the dimension-mismatch error and returns no    *)
(* matrix, wherever the odd vector sits.                                   *)
(***************************************************************************)
C9_RaggedRaisesMismatch ==
  (args = <<>> /\ Ragged) =>
    /\ pc # "done"
    /\ ~ret.returned
    /\ pc = "loop" => i < n
    /\ pc = "raised" => err = "ValueError"

\* C9 as amended: the call ends in an error and returns no matrix; the error
\* is the dimension mismatch, or ZeroDivisionError when compiled code meets a
\* pair of equal-length vectors of zero norm product before the first
\* mismatched pair.
C9_RaggedRaises ==
  (args = <<>> /\ Ragged) =>
    /\ pc # "done"
    /\ ~ret.returned
    /\ pc = "loop" => i < n
    /\ pc = "raised" =>
         \/ /\ err = "ValueError"
            /\ Len(vectors[i + 1]) # Len(vectors[j + 1])
         \/ /\ err = "ZeroDivisionError"
            /\ mode = "nopython"
            /\ Len(vectors[i + 1]) = Len(vectors[j + 1])
            /\ ~NonZero(vectors[i + 1]) \/ ~NonZero(vectors[j + 1])
    /\ (pc = "raised" /\ AllNonZero) => err = "ValueError"
    /\ (pc = "raised" /\ mode = "object") => err = "ValueError"

C9_Witness ==
  /\ args = <<>>
  /\ Ragged
  /\ pc = "raised"
  /\ err = "ValueError"
  /\ Len(vectors) = 2
  /\ Len(vectors[1]) = 2
  /\ Len(vectors[2]) = 1
  /\ i = 0
  /\ j = 1
  /\ ~ret.returned

(***************************************************************************)
(* C10.  pairwise_similarity on an empty sequence returns a matrix with    *)
(* zero rows and zero columns, raises nothing and never calls              *)
(* cosine_similarity.                                                      *)
(***************************************************************************)
C10_EmptyInput ==
  (args = <<>> /\ vectors = <<>> /\ pc # "start") =>
    /\ pc \in {"loop", "done"}
    /\ pc = "loop" => i >= n
    /\ err = "none"
    /\ calls = <<>>
    /\ matrix.rows = 0
    /\ matrix.cols = 0
    /\ DOMAIN matrix.cell = {}
    /\ pc = "done" => ret = [returned |-> TRUE, value |-> matrix]

C10_Witness ==
  /\ args = <<>>
  /\ vectors = <<>>
  /\ pc = "done"
  /\ ret.returned
  /\ ret.value.rows = 0
  /\ ret.value.cols = 0
  /\ calls = <<>>

NegVec(A) == [k \in 1..Len(A) |-> 0 - A[k]]

\* the number -x
NegNum(x) == [x EXCEPT !.sign = 0 - x.sign]

C12_OppositeIsMinusOne ==
  (CalledProper /\ args[2] = NegVec(args[1])) => sim.val = NegNum(One)

\* C12 as amended: cosine_similarity(A, -A) is the negative of
\* cosine_similarity(A, A), which is -1 up to floating-point rounding (at
\* most two units in the last place away), and exactly -1 when A has a
\* single non-zero element, as [1,0] has.
C12_OppositeNearMinusOne ==
  (CalledProper /\ args[2] = NegVec(args[1])) =>
    /\ sim.err = "none"
    /\ sim.val.sign = -1
    /\ NearOne(NegNum(sim.val), Prec(dtype), 2)
    /\ sim.val = NegNum(cosine_similarity(args[1], args[1]).val)
    /\ Cardinality({k \in 1..Len(args[1]) : args[1][k] # 0}) = 1 =>
         sim.val = NegNum(One)

C12_Witness ==
  /\ CalledProper
  /\ args[2] = NegVec(args[1])
  /\ sim.val.sign = -1
  /\ sim.val # NegNum(One)
  /\ NearOne(NegNum(sim.val), Prec(dtype), 1)

(***************************************************************************)
(* C13.  As claimed: for vectors = [[1,0,0],[0,1,0],[1,1,0]] the result is *)
(* a 3 x 3 matrix with diagonal [1,1,1], matrix[0][1] = 0 and              *)
(* matrix[0][2] = matrix[1][2] = 1/sqrt(2), a number whose square is       *)
(* exactly 1/2.                                                            *)
(***************************************************************************)
\* x * x = 1/2
SquareIsHalf(x) ==
  /\ ~x.nan
  /\ x.sign = 1
  /\ x.exp < 0
  /\ 2 * x.man * x.man = 4^(0 - x.exp)

\* x is positive and at most one unit in the last place of p bits from 1/sqrt(2)
NearInvSqrt2(x, p) ==
  /\ ~x.nan
  /\ x.sign = 1
  /\ x.exp - WidenBy(x.man, p) = 0 - p
  /\ 2 * (Widen(x.man, p) - 1) * (Widen(x.man, p) - 1) <= 4^p
  /\ 2 * (Widen(x.man, p) + 1) * (Widen(x.man, p) + 1) >= 4^p

C13_ScenarioExact ==
  (vectors = Scenario /\ pc # "start") =>
    /\ pc # "raised"
    /\ pc = "done" =>
         /\ ret.value.rows = 3
         /\ ret.value.cols = 3
         /\ \A a \in 0..2 : ret.value.cell[<<a, a>>] = One
         /\ ret.value.cell[<<0, 1>>] = Zero
         /\ ret.value.cell[<<0, 2>>] = ret.value.cell[<<1, 2>>]
         /\ SquareIsHalf(ret.value.cell[<<0, 2>>])

\* C13 as amended: the matrix is 3 x 3; matrix[0][0] = matrix[1][1] = 1 and
\* matrix[0][1] = 0 exactly; matrix[2][2] is 1 up to rounding (at most two
\* units in the last place); matrix[0][2] = matrix[1][2] is the float32
\* nearest to the computed 1/sqrt(2), within one unit in the last place of
\* 1/sqrt(2) (about 0.7071), and its square is not exactly 1/2.
C13_ScenarioRounded ==
  (vectors = Scenario /\ pc # "start") =>
    /\ pc # "raised"
    /\ pc = "done" =>
         /\ ret.value.rows = 3
         /\ ret.value.cols = 3
         /\ ret.value.cell[<<0, 0>>] = One
         /\ ret.value.cell[<<1, 1>>] = One
         /\ NearOne(ret.value.cell[<<2, 2>>], MantBits32, 2)
         /\ ret.value.cell[<<0, 1>>] = Zero
         /\ ret.value.cell[<<1, 0>>] = Zero
         /\ ret.value.cell[<<0, 2>>] = ret.value.cell[<<1, 2>>]
         /\ NearInvSqrt2(ret.value.cell[<<0, 2>>], MantBits32)
         /\ ~SquareIsHalf(ret.value.cell[<<0, 2>>])

C13_Witness ==
  /\ vectors = Scenario
  /\ pc = "done"
  /\ dtype = "float32"
  /\ ret.value.cell[<<2, 2>>] # One
  /\ NearInvSqrt2(ret.value.cell[<<1, 2>>], MantBits32)

(***************************************************************************)
(* C14.  As claimed: cosine_similarity(k * A, B) == cosine_similarity(A,   *)
(* B) for every positive integer k.  The norm of k * A is rounded on its   *)
(* own, so the quotient moves by a unit in the last place when k is not a  *)
(* power of two: float32 [-1,-1] against [-1,0] gives 0.70710677, and      *)
(* 0.7071068 after scaling by 3.  What holds: the outcome (return, error   *)
(* or NaN) is the same, the value stays within two units in the last place *)
(* of 1, and it is unchanged when k is a power of two.                     *)
(***************************************************************************)
\* k * A, element by element
Scale(k, A) == [m \in 1..Len(A) |-> k * A[m]]

\* x * 2^q as an integer, q large enough for every bit of x
Fix(x, q) ==
  IF x.exp + q >= 0 THEN x.sign * x.man * 2^(x.exp + q)
  ELSE x.sign * (x.man \div 2^(0 - (x.exp + q)))

\* |x - y| <= k * 2^(1-p)
Close(x, y, p, k) ==
  /\ ~x.nan
  /\ ~y.nan
  /\ Abs(Fix(x, 2 * p + 6) - Fix(y, 2 * p + 6)) <= k * 2^(p + 7)

PowerOfTwo(k) == \E e \in 0..k : k = 2^e

\* C14 as claimed: scaling the first operand by a positive integer leaves
\* the result of cosine_similarity exactly as it was
C14_ScaleInvariant ==
  pc = "called" =>
    \A k \in 1..MaxScale : cosine_similarity(Scale(k, args[1]), args[2]) = sim

\* C14 amended: scaling the first operand by a positive integer leaves the
\* outcome the same up to two units in the last place, exactly the same when
\* the factor is a power of two
C14_ScaleNearInvariant ==
  pc = "called" =>
    \A k \in 1..MaxScale :
      LET s == cosine_similarity(Scale(k, args[1]), args[2])
      IN  /\ s.err = sim.err
          /\ s.val.nan = sim.val.nan
          /\ (s.err = "none" /\ ~s.val.nan) => Close(s.val, sim.val, Prec(dtype), 2)
          /\ PowerOfTwo(k) => s = sim

\* a direct call on proper operands whose result moves, within the tolerance,
\* when the first operand is scaled
C14_Witness ==
  /\ CalledProper
  /\ \E k \in 2..MaxScale :
       LET s == cosine_similarity(Scale(k, args[1]), args[2])
       IN  /\ s # sim
           /\ s.err = "none"
           /\ Close(s.val, sim.val, Prec(dtype), 2)

(***************************************************************************)
(* C15.  cosine_similarity and pairwise_similarity have no side effects:   *)
(* no step of either call, returning or raising, changes an input vector's *)
(* length or elements, the element type, or the input sequence.            *)
(***************************************************************************)
C15_InputsUnchanged ==
  [][vectors' = vectors /\ args' = args /\ dtype' = dtype]_vars

\* both kinds of ending of pairwise_similarity on a non-empty input, and a
\* finished direct call, are reached after steps that read the inputs
C15_Witness ==
  \/ pc = "raised" /\ Len(vectors) = 2 /\ Len(calls) >= 2
  \/ pc = "done" /\ Len(vectors) = 2 /\ Len(calls) = 4

(***************************************************************************)
(* C16.  pairwise_similarity retains no state between invocations: an      *)
(* invocation on the input of an earlier one ends as the earlier one did,  *)
(* with an equal matrix or the same error, whatever was invoked before or  *)
(* between the two.                                                        *)
(***************************************************************************)
C16_NoStateRetained ==
  (pc \in {"done", "raised"} /\ Len(kept) = 1 /\ kept[1].input = vectors) =>
    kept[1].outcome = Outcome

\* an invocation on the input <<1,2>>, <<1,2>> returns after an earlier one
\* on the same input, whose outcome the caller kept
C16_Witness ==
  /\ pc = "done"
  /\ Len(kept) = 1
  /\ kept[1].input = vectors
  /\ vectors = <<<<1, 2>>, <<1, 2>>>>
  /\ kept[1].outcome.err = "none"

(***************************************************************************)
(* C17.  Each cell (i, j) depends only on vectors[i] and vectors[j]: when  *)
(* the n * n cell computations are run in any order, every cell written is *)
(* the cell of the sequential row-major loop, the final matrix is the      *)
(* matrix that loop returned, and the run fails only on an input on which  *)
(* the loop ended in an error.                                             *)
(***************************************************************************)
C17_AnyOrderSameMatrix ==
  /\ pc = "joined" => kept[1].outcome = [err |-> "none", value |-> ret.value]
  /\ pc = "failed" => kept[1].outcome.err # "none"
  /\ (pc = "par" /\ kept[1].outcome.err = "none") =>
       \A c \in DOMAIN matrix.cell \ pending :
         matrix.cell[c] = kept[1].outcome.value.cell[c]

\* the workers have returned a 2 x 2 matrix, equal to the sequential one,
\* whose cells are not all the same
C17_Witness ==
  /\ pc = "joined"
  /\ n = 2
  /\ ret.value = kept[1].outcome.value
  /\ ret.value.cell[<<0, 1>>] # ret.value.cell[<<0, 0>>]

(***************************************************************************)
(* C18.  For every finite input sequence pairwise_similarity eventually    *)
(* finishes, returning a matrix or ending in an error, and the loop body   *)
(* runs at most n * n times.                                               *)
(***************************************************************************)
C18_EventuallyFinishes ==
  /\ (pc = "start") ~> (pc \in {"done", "raised"})
  /\ [](Len(calls) <= n * n)

\* the loop has run its n * n = 4 passes and the call has returned
C18_Witness ==
  /\ pc = "done"
  /\ n = 2
  /\ Len(calls) = 4

(***************************************************************************)
(* C19.  As claimed: after the "Adding extra SMILES from Jacqueline's      *)
(* analysis" step every Notation of combined_jac is a member of the        *)
(* smi_list from which mol_df is built.  The step computes jac_missing and *)
(* never appends it: smi_list is as it was, and a Notation that was        *)
(* missing stays missing from smi_list and from mol_df.                    *)
(***************************************************************************)
C19_MissingAdded ==
  /\ cell \notin {"load", "missing"} => Range(combined_jac) \subseteq Range(smi_list)
  /\ cell \in {"weights", "assign", "dedup", "saved"} =>
       Range(combined_jac) \subseteq Range(mol_df.Raw)

Clean(v) == v # <<>> /\ Head(v) \notin Whitespace /\ v[Len(v)] \notin Whitespace

\* x is v without the whitespace at its ends
Trimmed(x, v) ==
  /\ x = <<>> \/ Clean(x)
  /\ \E a, b \in 0..Len(v) :
       /\ a + Len(x) + b = Len(v)
       /\ SubSeq(v, a + 1, a + Len(x)) = x
       /\ \A k \in 1..a : v[k] \in Whitespace
       /\ \A k \in Len(v) - b + 1..Len(v) : v[k] \in Whitespace

\* C21 as claimed: the stripped lines read back are the Raw column
C21_RoundTrip ==
  cell = "read" => smi_list = mol_df.Raw

\* C21 amended: one line per row, as many entries as rows, each the row's
\* string without the whitespace at its ends, the string itself when clean
C21_RoundTripClean ==
  /\ cell \in {"readlines", "strip", "read"} =>
       Len(SelectSeq(collected_smiles, LAMBDA c : c = "LF")) = Len(mol_df.Raw)
  /\ cell = "read" =>
       /\ Len(smi_list) = Len(mol_df.Raw)
       /\ \A k \in 1..Len(smi_list) :
            /\ mol_df.Raw[k] = <<>> => smi_list[k] = <<"QUOTE", "QUOTE">>
            /\ mol_df.Raw[k] # <<>> => Trimmed(smi_list[k], mol_df.Raw[k])
            /\ Clean(mol_df.Raw[k]) => smi_list[k] = mol_df.Raw[k]

\* two clean strings came back as they were written, in their order
C21_Witness ==
  /\ cell = "read"
  /\ Len(mol_df.Raw) = 2
  /\ \A k \in 1..2 : Clean(mol_df.Raw[k])
  /\ smi_list = mol_df.Raw
  /\ mol_df.Raw[1] = <<"C", "N">>

(***************************************************************************)
(* C22.  As claimed: a row gets Check == True if and only if its           *)
(* molecule's canonical SMILES is the canonical SMILES of a checklist      *)
(* molecule, whatever spelling the Raw column holds.  Only the checklist   *)
(* is canonicised; the Raw column is compared as it is spelled, so a row   *)
(* N#CC (methyl cyanide, canonical CC#N) gets Check == False.              *)
(***************************************************************************)
C22_CheckIsCanonical ==
  cell = "checked" =>
    \A k \in 1..Len(mol_df.Raw) :
      Parses(mol_df.Raw[k]) =>
        (Check[k] <=> \E c \in 1..Len(ChecklistLiteral) :
                        canonicize_smi(mol_df.Raw[k]) = canonicize_smi(ChecklistLiteral[c]))

(***************************************************************************)
(* The KIDA table: InChI to SMILES, the filter, and the extension of       *)
(* smi_list.  A cell of the table is a string or one of two missing        *)
(* values: None (the scraper's default) and NaN (a blank cell of the CSV   *)
(* file).                                                                  *)
(***************************************************************************)
MaxKida == 2

PyNone == "None:NoneType"
PyNaN == "nan:float"

IsMissing(x) == x \in {PyNone, PyNaN}

\* str(x)
Str(x) == IF x = PyNone THEN "None" ELSE IF x = PyNaN THEN "nan" ELSE x

\* the InChI strings the toolkit builds a molecule from, with the canonical
\* SMILES of that molecule
InchiHCN == "InChI=1S/CHN/c1-2/h1H"
InchiCH3CN == "InChI=1S/C2H3N/c1-2-3/h1H3"
InchiBad == "InChI=1S/bad"

MolFromInchi(s) == s \in {InchiHCN, InchiCH3CN}

MolToSmiles(s) == IF s = InchiHCN THEN "C#N" ELSE "CC#N"

\* inchi_to_smiles returns "" where a missing InChI is taken for an empty one
inchi_to_smiles_default(inchi) ==
  IF IsMissing(inchi) \/ inchi = "" THEN ""
  ELSE IF MolFromInchi(inchi) THEN MolToSmiles(inchi) ELSE PyNone

\* def inchi_to_smiles(inchi): a function that falls off its end returns None
inchi_to_smiles(inchi) ==
  LET s == Str(inchi)
  IN  IF s # ""
        THEN IF MolFromInchi(s) THEN MolToSmiles(s) ELSE PyNone
        ELSE ""

InchiPool == {PyNone, PyNaN, "", InchiHCN, InchiCH3CN, InchiBad}
FormulaPool == {"HCN", PyNaN}

KidaRows == [Formula : FormulaPool, InChI : InchiPool]

\* Series.str.len() != 0. : the length of a missing value is NaN, and
\* NaN != 0. is True
LenNotZero(x) == IsMissing(x) \/ x # ""

\* DataFrame.dropna(): a row stays when none of its cells is missing
NoneMissing(r) == ~IsMissing(r.Formula) /\ ~IsMissing(r.InChI) /\ ~IsMissing(r.SMILES)

\* the filter without its test of the length
Keeps_dropna(r) == NoneMissing(r)

\* .loc[(kida_df["SMILES"].str.len() != 0.)].dropna()
Keeps(r) == LenNotZero(r.SMILES) /\ NoneMissing(r)

\* smi_list as the QM9 and .smi cells may have left it
BeforeKida == {<<>>, <<"CCO">>}

InitKida ==
  /\ SimIdle
  /\ cell = "apply"
  /\ smi_list \in BeforeKida
  /\ combined_jac = <<>>
  /\ jac_missing = <<>>
  /\ molecular_weights = <<>>
  /\ mol_df = Frame({}, <<>>, <<>>, <<>>)
  /\ kida_df \in SeqsUpTo(KidaRows, MaxKida)
  /\ kida_smiles = <<>>
  /\ NoTablesBut("kida")

\* kida_df["SMILES"] = kida_df["InChI"].apply(inchi_to_smiles)
Apply ==
  /\ cell = "apply"
  /\ cell' = "filter"
  /\ kida_df' = [k \in 1..Len(kida_df) |->
                   [Formula |-> kida_df[k].Formula,
                    InChI   |-> kida_df[k].InChI,
                    SMILES  |-> inchi_to_smiles(kida_df[k].InChI)]]
  /\ UNCHANGED <<smi_list, combined_jac, jac_missing, molecular_weights, mol_df>>
  /\ UNCHANGED <<kida_smiles, NotKidaVars, simVars>>

\* kida_smiles = kida_df.loc[...].dropna()
Filter ==
  /\ cell = "filter"
  /\ cell' = "extend"
  /\ kida_smiles' = SelectSeq(kida_df, Keeps)
  /\ UNCHANGED <<smi_list, combined_jac, jac_missing, molecular_weights, mol_df>>
  /\ UNCHANGED <<kida_df, NotKidaVars, simVars>>

\* smi_list.extend(kida_smiles["SMILES"].to_list())
Extend ==
  /\ cell = "extend"
  /\ cell' = "extended"
  /\ smi_list' = smi_list \o [k \in 1..Len(kida_smiles) |-> kida_smiles[k].SMILES]
  /\ UNCHANGED <<combined_jac, jac_missing, molecular_weights, mol_df>>
  /\ UNCHANGED <<tableVars, simVars>>

NextKida == Apply \/ Filter \/ Extend

SpecKida == InitKida /\ [][NextKida]_vars

\* the SMILES column of a table
SmilesOf(t) == [k \in 1..Len(t) |-> t[k].SMILES]

\* the cell holds a SMILES string
HasSmiles(x) == x \in {"C#N", "CC#N"}

\* smi_list is what it was before the KIDA cells, then the strings of q
Appended(q) ==
  \E before \in BeforeKida :
    /\ Len(smi_list) = Len(before) + Len(q)
    /\ \A k \in 1..Len(before) : smi_list[k] = before[k]
    /\ \A k \in 1..Len(q) : smi_list[Len(before) + k] = q[k]

(***************************************************************************)
(* C23.  As claimed: kida_smiles holds exactly the rows whose InChI        *)
(* converts to a non-empty SMILES, and exactly their SMILES are appended   *)
(* to smi_list in table order.  dropna() looks at every column, so a row   *)
(* with a SMILES and a blank Formula is dropped too.                       *)
(***************************************************************************)
C23_KeepsEverySmiles ==
  /\ cell \in {"extend", "extended"} =>
       kida_smiles = SelectSeq(kida_df, LAMBDA r : HasSmiles(r.SMILES))
  /\ cell = "extended" => Appended(SmilesOf(kida_smiles))

(***************************************************************************)
(* C23, amended.  kida_smiles holds, in table order, exactly the rows      *)
(* whose InChI converted to a non-empty SMILES and whose Formula is not    *)
(* blank: every row whose InChI is missing, empty or rejected is excluded, *)
(* and the SMILES of the kept rows are appended to smi_list in that order, *)
(* the earlier entries staying as they were.                               *)
(***************************************************************************)
C23_KeepsNamedSmiles ==
  /\ cell \in {"extend", "extended"} =>
       /\ kida_smiles = SelectSeq(kida_df,
            LAMBDA r : HasSmiles(r.SMILES) /\ r.Formula # PyNaN)
       /\ \A k \in 1..Len(kida_smiles) :
            kida_smiles[k].InChI \in {InchiHCN, InchiCH3CN}
  /\ cell = "extended" => Appended(SmilesOf(kida_smiles))

\* of an empty InChI and hydrogen cyanide, only the second is appended
C23_Witness ==
  /\ cell = "extended"
  /\ Len(kida_df) = 2
  /\ kida_df[1].InChI = "" /\ kida_df[1].SMILES = ""
  /\ kida_df[2].InChI = InchiHCN /\ kida_df[2].Formula = "HCN"
  /\ Len(kida_smiles) = 1
  /\ smi_list = <<"CCO", "C#N">>

(***************************************************************************)
(* C30.  As claimed: inchi_to_smiles returns "" for a missing InChI as     *)
(* well as for an empty string, the canonical SMILES when the toolkit      *)
(* builds a molecule, and None only when the toolkit rejects a non-empty   *)
(* InChI.  str() turns None into "None" and NaN into "nan", which are not  *)
(* empty, so a missing InChI is handed to the toolkit, and the result is   *)
(* None.                                                                   *)
(***************************************************************************)
C30_MissingGivesEmpty ==
  cell # "apply" =>
    \A k \in 1..Len(kida_df) :
      LET r == kida_df[k]
      IN  /\ (IsMissing(r.InChI) \/ r.InChI = "") => r.SMILES = ""
          /\ r.InChI = InchiHCN => r.SMILES = "C#N"
          /\ r.InChI = InchiCH3CN => r.SMILES = "CC#N"
          /\ r.SMILES = PyNone => r.InChI = InchiBad

(***************************************************************************)
(* C30, amended.  inchi_to_smiles returns "" for the empty string only,    *)
(* the canonical SMILES when the toolkit builds a molecule, and None when  *)
(* the toolkit rejects the string it is given, which is the case of a      *)
(* malformed InChI and of a missing one (None or NaN, which str() spells   *)
(* "None" and "nan").                                                      *)
(***************************************************************************)
C30_MissingGivesNone ==
  cell # "apply" =>
    \A k \in 1..Len(kida_df) :
      LET r == kida_df[k]
      IN  /\ r.SMILES = "" <=> r.InChI = ""
          /\ r.InChI = InchiHCN => r.SMILES = "C#N"
          /\ r.InChI = InchiCH3CN => r.SMILES = "CC#N"
          /\ r.SMILES = PyNone <=> r.InChI \in {PyNone, PyNaN, InchiBad}

\* a blank cell of the CSV file gave None, acetonitrile its SMILES
C30_Witness ==
  /\ cell = "filter"
  /\ Len(kida_df) = 2
  /\ kida_df[1].InChI = PyNaN /\ kida_df[1].SMILES = PyNone
  /\ kida_df[2].InChI = InchiCH3CN /\ kida_df[2].SMILES = "CC#N"

(***************************************************************************)
(* Loading the .smi files.  A file is the sequence of its characters.      *)
(***************************************************************************)
MaxText == 4

FileChars == {"C", "SP", "LF"}

Texts == SeqsUpTo(FileChars, MaxText)

\* a second file, when there is one
SecondFiles == {<<"C", "LF", "C">>, <<"LF", "SP", "C">>}

\* smi_list after the QM9 cell
BeforeLoad == {<<>>, << <<"N">> >>}

RECURSIVE SplitFrom(_, _, _, _, _)
SplitFrom(s, sep, k, cur, acc) ==
  IF k > Len(s) THEN Append(acc, cur)
  ELSE IF s[k] = sep THEN SplitFrom(s, sep, k + 1, <<>>, Append(acc, cur))
  ELSE SplitFrom(s, sep, k + 1, Append(cur, s[k]), acc)

\* s.split(sep)
Split(s, sep) == SplitFrom(s, sep, 1, <<>>, <<>>)

\* the lines of a file, the first one too
Lines_header(text) == Split(text, "LF")

\* smi_file.read_text().split("\n")[1:]
Lines(text) == Tail(Split(text, "LF"))

\* the entry is the whole line
Entry_line(line) == line

\* line.split(" ")[0]
Entry(line) == Split(line, "SP")[1]

\* for line in temp: if len(line) != 0: smi_list.append(line.split(" ")[0])
RECURSIVE AppendLines(_, _)
AppendLines(list, temp) ==
  IF temp = <<>> THEN list
  ELSE AppendLines(IF Len(Head(temp)) # 0 THEN Append(list, Entry(Head(temp))) ELSE list,
                   Tail(temp))

InitLoad ==
  /\ SimIdle
  /\ cell = "smi"
  /\ smi_list \in BeforeLoad
  /\ combined_jac = <<>>
  /\ jac_missing = <<>>
  /\ molecular_weights = <<>>
  /\ mol_df = Frame({}, <<>>, <<>>, <<>>)
  /\ smi_files \in {<<t>> : t \in Texts} \cup {<<t, u>> : t \in Texts, u \in SecondFiles}
  /\ loaded = 0
  /\ NoTablesBut("load")

\* one pass of: for smi_file in Path("../data/").rglob("*/*.smi")
LoadFile ==
  /\ cell = "smi"
  /\ loaded < Len(smi_files)
  /\ loaded' = loaded + 1
  /\ smi_list' = AppendLines(smi_list, Lines(smi_files[loaded + 1]))
  /\ UNCHANGED <<cell, combined_jac, jac_missing, molecular_weights, mol_df>>
  /\ UNCHANGED <<smi_files, NotLoadVars, simVars>>

\* the loop is over
LoadDone ==
  /\ cell = "smi"
  /\ loaded = Len(smi_files)
  /\ cell' = "kida"
  /\ UNCHANGED <<smi_list, combined_jac, jac_missing, molecular_weights, mol_df>>
  /\ UNCHANGED <<tableVars, simVars>>

NextLoad == LoadFile \/ LoadDone

SpecLoad == InitLoad /\ [][NextLoad]_vars

\* the places of a text where a line that is not the first and not empty
\* begins
LineStarts(text) ==
  {k \in 2..Len(text) : text[k - 1] = "LF" /\ text[k] # "LF"}

\* the characters from place k up to the next space or the end of the line
FieldAt(text, k) ==
  LET stops == {m \in k..Len(text) : text[m] \in {"SP", "LF"}}
      stop == IF stops = {} THEN Len(text) + 1
              ELSE CHOOSE m \in stops : \A o \in stops : m <= o
  IN  SubSeq(text, k, stop - 1)

\* the places of a set, in increasing order
RECURSIVE Ascending(_)
Ascending(S) ==
  IF S = {} THEN <<>>
  ELSE LET m == CHOOSE x \in S : \A y \in S : x <= y
       IN  <<m>> \o Ascending(S \ {m})

\* the entries a file is to add
ExpectedOf(text) ==
  LET at == Ascending(LineStarts(text))
  IN  [k \in 1..Len(at) |-> FieldAt(text, at[k])]

RECURSIVE ExpectedUpTo(_)
ExpectedUpTo(m) ==
  IF m = 0 THEN <<>> ELSE ExpectedUpTo(m - 1) \o ExpectedOf(smi_files[m])

\* smi_list is what the QM9 cell left, then the entries of the files read
LoadedAsExpected ==
  \E before \in BeforeLoad : smi_list = before \o ExpectedUpTo(loaded)

(***************************************************************************)
(* C29.  As claimed: the loop appends one entry per non-empty, non-header  *)
(* line, equal to the line's first space-separated field, leaves the       *)
(* earlier entries alone, and never appends the empty string.  The test    *)
(* len(line) != 0 is on the line, not on the field, so a line that begins  *)
(* with a space appends the empty string.                                  *)
(***************************************************************************)
C29_NoEmptyEntry ==
  /\ LoadedAsExpected
  /\ \A k \in 1..Len(smi_list) : smi_list[k] # <<>>

(***************************************************************************)
(* C29, amended.  The loop appends one entry per non-empty, non-header     *)
(* line, equal to the line's first space-separated field, and leaves the   *)
(* earlier entries alone; an appended entry is the empty string exactly    *)
(* when its line begins with a space.                                      *)
(***************************************************************************)
C29_EmptyOnlyAfterSpace ==
  /\ LoadedAsExpected
  /\ \A m \in 1..loaded :
       LET text == smi_files[m]
           at == Ascending(LineStarts(text))
       IN  \A k \in 1..Len(at) :
             ExpectedOf(text)[k] = <<>> <=> text[at[k]] = "SP"

\* the header is skipped, the name after the space is cut off, and the
\* second file adds its own line after the first file's
C29_Witness ==
  /\ loaded = 2
  /\ smi_files = << <<"C", "LF", "C", "SP">>, <<"C", "LF", "C">> >>
  /\ smi_list = << <<"N">>, <<"C">>, <<"C">> >>

(***************************************************************************)
(* C27.  pairwise_similarity computes every pair on its own: the calls of  *)
(* cosine_similarity are the ordered pairs (i, j) in row-major order, one  *)
(* call per cell and n * n of them when the invocation returns; a cell is  *)
(* written by its own call only, and the cells not yet reached hold 0.     *)
(***************************************************************************)
C27_EveryPairOnce ==
  (args = <<>> /\ pc \in {"loop", "done", "raised"}) =>
    /\ \A k \in 1..Len(calls) : calls[k] = <<(k - 1) \div n, (k - 1) % n>>
    /\ Len(calls) = i * n + j + (IF pc = "raised" THEN 1 ELSE 0)
    /\ \A x \in DOMAIN matrix.cell :
         (x[1] > i \/ (x[1] = i /\ x[2] >= j)) => matrix.cell[x] = Zero
    /\ pc = "done" => Len(calls) = n * n

\* two vectors, the first row done: cell (0, 1) is written and not zero,
\* its mirror (1, 0) has not been reached and holds 0
C27_Witness ==
  /\ args = <<>>
  /\ pc = "loop"
  /\ n = 2
  /\ calls = << <<0, 0>>, <<0, 1>> >>
  /\ matrix.cell[<<0, 1>>] # Zero
  /\ matrix.cell[<<1, 0>>] = Zero
  /\ matrix.cell[<<1, 1>>] = Zero

(***************************************************************************)
(* The TMC-1 table: the isotopologue filter, one vector per kept row, and  *)
(* the dictionary from molecule name to vector.  A Notation is the         *)
(* sequence of its characters.                                             *)
(***************************************************************************)
MaxTmc == 2

isotope_specs == << <<"1", "3">>, <<"1", "5">>, <<"3", "4">>, <<"1", "8">> >>

\* sub in s
Contains(s, sub) ==
  \E k \in 1..Len(s) - Len(sub) + 1 : SubSeq(s, k, k + Len(sub) - 1) = sub

\* only the first of the isotope strings is looked for
ContainsAny_first(s) == Contains(s, isotope_specs[1])

\* Series.str.contains("|".join(isotope_specs))
ContainsAny(s) == \E k \in 1..Len(isotope_specs) : Contains(s, isotope_specs[k])

Methane == <<"C">>
Cyclopropane == <<"C", "1", "C", "C", "1">>
Carbon13 == <<"[", "1", "3", "C", "]", "#", "N">>
Nitrogen15 == <<"C", "#", "[", "1", "5", "N", "]">>
Sulfur34 == <<"C", "=", "[", "3", "4", "S", "]">>
Oxygen18 == <<"C", "=", "[", "1", "8", "O", "]">>
\* fluorine with a double bond: parsed, but its valence does not sanitize
Hypervalent == <<"C", "=", "F">>
\* an open branch: no parse at all
Unclosed == <<"C", "(">>

NotationPool ==
  {Methane, Cyclopropane, Carbon13, Nitrogen15, Sulfur34, Oxygen18, Hypervalent, Unclosed}

MoleculePool == {"CH3CN", "c-C3H2"}

TmcRows == [Molecule : MoleculePool, Notation : NotationPool]

NoMol == [none |-> TRUE, smiles |-> <<>>, sanitized |-> FALSE]

\* Chem.MolFromSmiles(smi, sanitize=...): a molecule, or None when the
\* string does not parse or, with sanitize, does not sanitize; no exception
MolFromSmiles(smi, sanitize) ==
  IF smi = Unclosed \/ (sanitize /\ smi = Hypervalent)
    THEN [raised |-> "none", mol |-> NoMol]
    ELSE [raised |-> "none", mol |-> [none |-> FALSE, smiles |-> smi, sanitized |-> sanitize]]

\* features.sentences2vec([sentence], model): one row per sentence
sentences2vec(mol) == << [of |-> mol.smiles] >>

\* a smi_to_vector whose except branch replaces a molecule that is None
smi_to_vector_fallback(smi) ==
  LET first == MolFromSmiles(smi, TRUE)
      mol == IF first.mol.none THEN MolFromSmiles(smi, FALSE).mol ELSE first.mol
  IN  IF mol.none
        THEN [raised |-> "ArgumentError", value |-> <<>>]
        ELSE [raised |-> "none", value |-> sentences2vec(mol)]

\* def smi_to_vector(smi, model)
smi_to_vector(smi) ==
  LET first == MolFromSmiles(smi, TRUE)
      second == MolFromSmiles(smi, FALSE)
  IN  IF first.raised = "RuntimeError"
        THEN \* except RuntimeError: the unsanitized parse, then two calls on mol
             IF second.mol.none
               THEN [raised |-> "AttributeError", value |-> <<>>]
               ELSE [raised |-> "none", value |-> sentences2vec(second.mol)]
        ELSE \* mol2alt_sentence(mol, radius=1) of the molecule of the try block
             IF first.mol.none
               THEN [raised |-> "ArgumentError", value |-> <<>>]
               ELSE [raised |-> "none", value |-> sentences2vec(first.mol)]

\* a dictionary that keeps the first pair of a key
DictOf_first(keys, values) ==
  [key \in Range(keys) |->
     values[CHOOSE k \in 1..Len(keys) :
              /\ keys[k] = key
              /\ \A m \in 1..Len(keys) : keys[m] = key => k <= m]]

\* the dictionary of a comprehension over pairs: a later pair replaces an
\* earlier one of the same key
DictOf(keys, values) ==
  [key \in Range(keys) |->
     values[CHOOSE k \in 1..Len(keys) :
              /\ keys[k] = key
              /\ \A m \in 1..Len(keys) : keys[m] = key => m <= k]]

InitTmc ==
  /\ SimIdle
  /\ cell = "tmc"
  /\ smi_list = <<>>
  /\ combined_jac = <<>>
  /\ jac_missing = <<>>
  /\ molecular_weights = <<>>
  /\ mol_df = Frame({}, <<>>, <<>>, <<>>)
  /\ df \in SeqsUpTo(TmcRows, MaxTmc)
  /\ ignored = <<>>
  /\ tmc_1_vecs = <<>>
  /\ molecule_dict = <<>>
  /\ raised = "none"
  /\ NoTablesBut("tmc")

\* ignored = df.loc[~df["Notation"].str.contains("|".join(isotope_specs))]
Ignore ==
  /\ cell = "tmc"
  /\ cell' = "vecs"
  /\ ignored' = SelectSeq(df, LAMBDA r : ~ContainsAny(r.Notation))
  /\ UNCHANGED <<smi_list, combined_jac, jac_missing, molecular_weights, mol_df>>
  /\ UNCHANGED <<df, tmc_1_vecs, molecule_dict, raised, NotTmcVars, simVars>>

\* one element of [smi_to_vector(smi, model)[0] for smi in ignored["Notation"].tolist()]
Vectorize ==
  /\ cell = "vecs"
  /\ Len(tmc_1_vecs) < Len(ignored)
  /\ LET r == smi_to_vector(ignored[Len(tmc_1_vecs) + 1].Notation)
     IN  IF r.raised # "none"
           THEN /\ raised' = r.raised
                /\ cell' = "raised"
                /\ UNCHANGED tmc_1_vecs
           ELSE /\ tmc_1_vecs' = Append(tmc_1_vecs, r.value[1])
                /\ UNCHANGED <<raised, cell>>
  /\ UNCHANGED <<smi_list, combined_jac, jac_missing, molecular_weights, mol_df>>
  /\ UNCHANGED <<df, ignored, molecule_dict, NotTmcVars, simVars>>

\* ignored["Vecs"] = tmc_1_vecs; molecule_dict = {mol: vector for mol, vector in zip(...)}
MakeDict ==
  /\ cell = "vecs"
  /\ Len(tmc_1_vecs) = Len(ignored)
  /\ cell' = "dict"
  /\ molecule_dict' = DictOf([k \in 1..Len(ignored) |-> ignored[k].Molecule], tmc_1_vecs)
  /\ UNCHANGED <<smi_list, combined_jac, jac_missing, molecular_weights, mol_df>>
  /\ UNCHANGED <<df, ignored, tmc_1_vecs, raised, NotTmcVars, simVars>>

NextTmc == Ignore \/ Vectorize \/ MakeDict

SpecTmc == InitTmc /\ [][NextTmc]_vars

\* the Notation has one of "13", "15", "18", "34" in it
HasIsotope(s) ==
  \E k \in 1..Len(s) - 1 :
    \/ s[k] = "1" /\ s[k + 1] \in {"3", "5", "8"}
    \/ s[k] = "3" /\ s[k + 1] = "4"

C25_OwnVector ==
  cell = "dict" =>
    \A k \in 1..Len(ignored) : molecule_dict[ignored[k].Molecule] = tmc_1_vecs[k]

(***************************************************************************)
(* C25, amended.  molecule_dict has the Molecule names of the filtered     *)
(* table as its keys, and molecule_dict[name] is the vector of the last    *)
(* row of that name: a row's own vector when no later row has its name.    *)
(***************************************************************************)
C25_LastVector ==
  cell = "dict" =>
    /\ DOMAIN molecule_dict = {ignored[k].Molecule : k \in 1..Len(ignored)}
    /\ \A k \in 1..Len(ignored) :
         (\A m \in k + 1..Len(ignored) : ignored[m].Molecule # ignored[k].Molecule)
           => molecule_dict[ignored[k].Molecule] = tmc_1_vecs[k]

\* two rows of one name and two different molecules: the name maps to the
\* second vector
C25_Witness ==
  /\ cell = "dict"
  /\ Len(ignored) = 2
  /\ ignored[1].Molecule = ignored[2].Molecule
  /\ ignored[1].Notation = Methane
  /\ ignored[2].Notation = Cyclopropane
  /\ molecule_dict[ignored[1].Molecule] = [of |-> Cyclopropane]

(***************************************************************************)
(* C28.  As claimed: smi_to_vector returns an embedding for every SMILES   *)
(* the toolkit parses with or without sanitization, so the comprehension   *)
(* stops at a string with no parse at all only, and every vector made is   *)
(* that of its own row.  Chem.MolFromSmiles reports a string that does     *)
(* not sanitize by returning None, not by an exception: the except branch  *)
(* is not entered and the sentence is asked of None.                       *)
(***************************************************************************)
C28_FallsBack ==
  /\ cell = "raised" => ignored[Len(tmc_1_vecs) + 1].Notation = Unclosed
  /\ \A k \in 1..Len(tmc_1_vecs) : tmc_1_vecs[k] = [of |-> ignored[k].Notation]

(***************************************************************************)
(* The KIDA scraping loop (RERUN = True).  A row of the page is the        *)
(* sequence of the texts of its td cells: none for a row of th cells, two  *)
(* when the InChI cell is absent, three with an InChI.                     *)
(***************************************************************************)
MaxSoup == 3

IndexTexts == {"1"}
FormulaTexts == {"HCN", " CO "}
InchiTexts == {InchiHCN, ""}

SoupRows ==
  {<<>>} \cup {<<a>> : a \in IndexTexts}
         \cup {<<a, f>> : a \in IndexTexts, f \in FormulaTexts}
         \cup {<<a, f, x>> : a \in IndexTexts, f \in FormulaTexts, x \in InchiTexts}

\* str.strip()
StripText(t) == IF t = " CO " THEN "CO" ELSE t

\* map_dict[key] = value
SetItem(d, key, value) ==
  [k \in DOMAIN d \cup {key} |-> IF k = key THEN value ELSE d[k]]

InitScrape ==
  /\ SimIdle
  /\ cell = "scrape"
  /\ smi_list = <<>>
  /\ combined_jac = <<>>
  /\ jac_missing = <<>>
  /\ molecular_weights = <<>>
  /\ mol_df = Frame({}, <<>>, <<>>, <<>>)
  /\ soup \in SeqsUpTo(SoupRows, MaxSoup)
  /\ map_dict = <<>>
  /\ name = Unbound
  /\ scraped = 0
  /\ NoTablesBut("scrape")

\* one pass of: for row in soup.find_all("tr")
ScrapeRow ==
  /\ cell = "scrape"
  /\ scraped < Len(soup)
  /\ LET row == soup[scraped + 1]
         \* inchi = None, then the loop over the columns
         inchi == IF Len(row) >= 3 THEN StripText(row[3]) ELSE PyNone
         bound == IF Len(row) >= 2 THEN StripText(StripText(row[2])) ELSE name
     IN  /\ name' = bound
         /\ IF bound = Unbound
              THEN \* map_dict[name] = inchi: NameError
                   /\ cell' = "NameError"
                   /\ UNCHANGED <<map_dict, scraped>>
              ELSE /\ map_dict' = SetItem(map_dict, bound, inchi)
                   /\ scraped' = scraped + 1
                   /\ UNCHANGED cell
  /\ UNCHANGED <<smi_list, combined_jac, jac_missing, molecular_weights, mol_df>>
  /\ UNCHANGED <<soup, NotScrapeVars, simVars>>

\* the loop is over
ScrapeDone ==
  /\ cell = "scrape"
  /\ scraped = Len(soup)
  /\ cell' = "scraped"
  /\ UNCHANGED <<smi_list, combined_jac, jac_missing, molecular_weights, mol_df>>
  /\ UNCHANGED <<tableVars, simVars>>

NextScrape == ScrapeRow \/ ScrapeDone

SpecScrape == InitScrape /\ [][NextScrape]_vars

\* the formula of a row that has one
FormulaOf(row) == IF row[2] = " CO " THEN "CO" ELSE row[2]

(***************************************************************************)
(* C26.  As claimed: after the loop, map_dict holds for each row's         *)
(* formula that same row's InChI, or None when the row has none, and a     *)
(* row never changes the entry of another row's formula (read here for     *)
(* formulas that stand in one row only).  name is not reset at the start   *)
(* of a row as inchi is: a row without a second td cell writes None under  *)
(* the formula of the row before it.                                       *)
(***************************************************************************)
C26_RowsKeepTheirInchi ==
  cell = "scraped" =>
    \A k \in 1..Len(soup) :
      (/\ Len(soup[k]) >= 2
       /\ \A m \in 1..Len(soup) :
            (m # k /\ Len(soup[m]) >= 2) => FormulaOf(soup[m]) # FormulaOf(soup[k]))
        => /\ FormulaOf(soup[k]) \in DOMAIN map_dict
           /\ map_dict[FormulaOf(soup[k])]
                = (IF Len(soup[k]) >= 3 THEN soup[k][3] ELSE PyNone)

====
